---- MODULE Spec2Model ----
(***************************************************************************)
(* Model of src/plugins/data_processor.py: the fuel-exports ETL stage.     *)
(*                                                                         *)
(* DataProcessor.transform_for_postgres and DataProcessor.validate_data    *)
(* are pure functions over pandas DataFrames; they are operators here.     *)
(* FileTracker and PostgreSQLLoader act on the database; their effect on   *)
(* the tracking table and the target table is modelled by operators that   *)
(* take the outcome of the underlying hook call as an argument.            *)
(* The per-file coordinator that composes them is not part of              *)
(* data_processor.py; its steps follow section 4.3 of the specification.   *)
(*                                                                         *)
(* A cell value is a tagged record:                                        *)
(*   [k |-> "none"]                 Python None                            *)
(*   [k |-> "nan"]                  float NaN (pandas' missing number)     *)
(*   [k |-> "num", n |-> 12]        a number                               *)
(*   [k |-> "str", s |-> <<..>>]    a str, as its sequence of characters   *)
(*   [k |-> "bool", b |-> TRUE]     a bool                                 *)
(*   [k |-> "list", l |-> <<..>>]   a Python list of str                   *)
(*   [k |-> "ndarray", l |-> <<..>>] a numpy array of str, which is what   *)
(*                                  Table.to_pandas() makes of a parquet   *)
(*                                  list column                            *)
(*   [k |-> "dict", d |-> f]        a dict, f a function from its keys     *)
(*   [k |-> "ts", t |-> 5, off |-> 2]  a timestamp: hour t on the clock of *)
(*                                  UTC offset off                         *)
(*   [k |-> "date", d |-> 1]        a datetime.date, as a day number       *)
(* A DataFrame is [cols |-> the column names in order, n |-> the number of *)
(* rows, data |-> a function from column name to its sequence of cells].   *)
(***************************************************************************)
EXTENDS Integers, Sequences, FiniteSets, TLC

VARIABLES
    fillnaNone,   \* what Series.fillna(None) does in the installed pandas
    pc,           \* position of the coordinator (or of the pure pipeline)
    filename,     \* the file of the current coordinator run
    content,      \* what each file holds (the reader's DataFrame)
    raw,          \* DataFrame read from the file
    norm,         \* result of transform_for_postgres(raw)
    valid,        \* result of validate_data(norm.df)
    again,        \* result of transform_for_postgres(norm.df)
    processed,    \* the rows of the processed_files table, in insertion order
    target,       \* rows committed to the target table, per source file
    loads,        \* insert_dataframe calls that returned, per source file
    calls,        \* coordinator runs started
    queryOk,      \* whether the last tracking query succeeded
    outcome,      \* how the current/last run ended
    failedAt,     \* the step at which the current/last run failed
    prev          \* the previous run: its file and outcome, and the tables at its end

vars == <<fillnaNone, pc, filename, content, raw, norm, valid, again,
          processed, target, loads, calls, queryOk, outcome, failedAt, prev>>

(***************************************************************************)
(* Bounds of the model.                                                    *)
(***************************************************************************)
MaxRows == 2
MaxCalls == 3

(***************************************************************************)
(* Cell values.                                                            *)
(***************************************************************************)
None == [k |-> "none"]
NaN == [k |-> "nan"]
Num(n) == [k |-> "num", n |-> n]
Str(s) == [k |-> "str", s |-> s]
Bool(b) == [k |-> "bool", b |-> b]
List(l) == [k |-> "list", l |-> l]
NdArray(l) == [k |-> "ndarray", l |-> l]
Dict(d) == [k |-> "dict", d |-> d]
Ts(t, off) == [k |-> "ts", t |-> t, off |-> off]
Date(d) == [k |-> "date", d |-> d]

Range(s) == {s[i] : i \in DOMAIN s}

\* pandas.isna on a cell
isna(x) == x.k \in {"none", "nan"}

(***************************************************************************)
(* DataFrame primitives.                                                   *)
(***************************************************************************)
HasCol(df, c) == c \in Range(df.cols)

\* df[c] = series: replaces the column in place, or appends a new one
SetCol(df, c, series) ==
    [cols |-> IF HasCol(df, c) THEN df.cols ELSE Append(df.cols, c),
     n |-> df.n,
     data |-> [x \in Range(df.cols) \cup {c} |-> IF x = c THEN series ELSE df.data[x]]]

\* df.drop(c, axis=1)
DropCol(df, c) ==
    [cols |-> SelectSeq(df.cols, LAMBDA x : x # c),
     n |-> df.n,
     data |-> [x \in Range(df.cols) \ {c} |-> df.data[x]]]

EmptyFrame == [cols |-> <<>>, n |-> 0, data |-> <<>>]

\* The result of a call: a DataFrame, or an exception.
Returned(df) == [raised |-> FALSE, df |-> df]
Raised == [raised |-> TRUE, df |-> EmptyFrame]

(***************************************************************************)
(* transform_for_postgres, rule by rule.                                   *)
(***************************************************************************)

\* lambda x: x.get("bay") if isinstance(x, dict) else None
dock_bay_cell(x) ==
    IF x.k = "dict" THEN (IF "bay" \in DOMAIN x.d THEN x.d["bay"] ELSE None) ELSE None

\* lambda x: x.get("level") if isinstance(x, dict) else None
dock_level_cell(x) ==
    IF x.k = "dict" THEN (IF "level" \in DOMAIN x.d THEN x.d["level"] ELSE None) ELSE None

\* ",".join(l) for a list of str
RECURSIVE Join(_)
Join(l) ==
    IF l = <<>> THEN <<>>
    ELSE IF Len(l) = 1 THEN l[1]
    ELSE l[1] \o <<",">> \o Join(Tail(l))

\* lambda x: ",".join(x) if isinstance(x, list) and x else ""
services_cell(x) ==
    IF x.k = "list" /\ x.l # <<>> THEN Str(Join(x.l)) ELSE Str(<<>>)

NaT == [k |-> "nat"]
ParseError == [k |-> "error"]

\* a to_datetime that shifts the hour to UTC but keeps the value's offset, as
\* a conversion that forgets to mark its result as UTC would
to_datetime_utc_cell_keep_offset(x) ==
    CASE x.k = "ts" -> Ts(x.t - x.off, x.off)
      [] x.k = "date" -> Ts(x.d * 24, 0)
      [] x.k \in {"none", "nan", "nat"} -> NaT
      [] OTHER -> ParseError

\* pd.to_datetime(series, utc=True), per cell: the instant on the UTC clock;
\* a str that is no date raises
to_datetime_utc_cell(x) ==
    CASE x.k = "ts" -> Ts(x.t - x.off, 0)
      [] x.k = "date" -> Ts(x.d * 24, 0)
      [] x.k \in {"none", "nan", "nat"} -> NaT
      [] OTHER -> ParseError

\* pd.to_datetime(series).dt.date, per cell: the calendar day of the value's
\* own clock, the time of day discarded
to_date_cell(x) ==
    CASE x.k = "ts" -> Date(x.t \div 24)
      [] x.k = "date" -> x
      [] x.k \in {"none", "nan", "nat"} -> NaT
      [] OTHER -> ParseError

Digits == <<"0", "1", "2", "3", "4", "5", "6", "7", "8", "9">>
IsDigit(c) == c \in Range(Digits)
DigitVal(c) == (CHOOSE i \in DOMAIN Digits : Digits[i] = c) - 1

\* the value of a sequence of digits, most significant first
RECURSIVE DigitsVal(_)
DigitsVal(s) ==
    IF s = <<>> THEN 0 ELSE 10 * DigitsVal(SubSeq(s, 1, Len(s) - 1)) + DigitVal(s[Len(s)])

\* a str parses as a number when it is an optional "-" and one or more digits
ParsesAsNumber(s) ==
    LET body == IF s # <<>> /\ s[1] = "-" THEN Tail(s) ELSE s
    IN  body # <<>> /\ \A i \in DOMAIN body : IsDigit(body[i])

ParseNumber(s) ==
    IF s[1] = "-" THEN 0 - DigitsVal(Tail(s)) ELSE DigitsVal(s)

\* pd.to_numeric with errors="ignore": what does not parse is left as it is
to_numeric_cell_ignore(x) ==
    CASE x.k = "num" -> x
      [] x.k = "str" -> IF ParsesAsNumber(x.s) THEN Num(ParseNumber(x.s)) ELSE x
      [] x.k = "bool" -> Num(IF x.b THEN 1 ELSE 0)
      [] OTHER -> NaN

\* pd.to_numeric(series, errors="coerce"), per cell
to_numeric_cell(x) ==
    CASE x.k = "num" -> x
      [] x.k = "str" -> IF ParsesAsNumber(x.s) THEN Num(ParseNumber(x.s)) ELSE NaN
      [] x.k = "bool" -> Num(IF x.b THEN 1 ELSE 0)
      [] OTHER -> NaN

\* series.astype(bool), per cell: Python truthiness. bool(None) is False and
\* bool(float("nan")) is True.
astype_bool_cell(x) ==
    CASE x.k = "bool" -> x
      [] x.k = "none" -> Bool(FALSE)
      [] x.k = "nan" -> Bool(TRUE)
      [] x.k = "num" -> Bool(x.n # 0)
      [] x.k = "str" -> Bool(x.s # <<>>)
      [] x.k \in {"list", "ndarray"} -> Bool(x.l # <<>>)
      [] x.k = "dict" -> Bool(DOMAIN x.d # {})
      [] OTHER -> Bool(TRUE)

\* Series.fillna(v) for a value v that is not None
fillna_cell(x, v) == IF isna(x) THEN v ELSE x

decimal_columns == <<"price_per_unit", "total_cost">>
float_columns == <<"fuel_units", "coords_x", "coords_y">>
int_columns == <<"station_id">>
bool_columns == <<"is_emergency">>

\* df[c] = convert(df[c]) for each column c of names that df has
WithConverted(df, names, converted) ==
    [cols |-> df.cols,
     n |-> df.n,
     data |-> [c \in Range(df.cols) |->
                  IF c \in Range(names) THEN converted[c] ELSE df.data[c]]]

\* the dock rule (lines 48-56)
DockStep(df) ==
    IF HasCol(df, "dock")
    THEN LET d1 == SetCol(df, "dock_bay",
                          [i \in 1..df.n |-> dock_bay_cell(df.data["dock"][i])])
             d2 == SetCol(d1, "dock_level",
                          [i \in 1..df.n |-> dock_level_cell(d1.data["dock"][i])])
         IN  DropCol(d2, "dock")
    ELSE df

\* the services rule (lines 58-62)
ServicesStep(df) ==
    IF HasCol(df, "services")
    THEN SetCol(df, "services",
                [i \in 1..df.n |-> services_cell(df.data["services"][i])])
    ELSE df

HasParseError(df, c) ==
    HasCol(df, c) /\ \E i \in DOMAIN df.data[c] : df.data[c][i] = ParseError

\* the datetime rules (lines 64-73); to_datetime raises on a value it cannot parse
DatetimeStep(df) ==
    LET d1 == WithConverted(df, <<"visited_at">>,
                  [c \in Range(df.cols) |->
                      [i \in 1..df.n |-> to_datetime_utc_cell(df.data[c][i])]])
        d2 == WithConverted(d1, <<"arrival_date">>,
                  [c \in Range(df.cols) |->
                      [i \in 1..df.n |-> to_date_cell(d1.data[c][i])]])
    IN  IF HasParseError(d1, "visited_at") \/ HasParseError(d2, "arrival_date")
        THEN Raised
        ELSE Returned(d2)

\* the numeric rules (lines 75-97); downcast="integer" changes the column's
\* dtype, not its values
NumericStep(df) ==
    WithConverted(df, decimal_columns \o float_columns \o int_columns,
        [c \in Range(df.cols) |-> [i \in 1..df.n |-> to_numeric_cell(df.data[c][i])]])

\* the boolean rule (lines 99-103)
BoolStep(df) ==
    WithConverted(df, bool_columns,
        [c \in Range(df.cols) |-> [i \in 1..df.n |-> astype_bool_cell(df.data[c][i])]])

\* df.fillna({"dock_bay": None, "dock_level": None, "services": "",
\*            "is_emergency": False}) (lines 105-113). DataFrame.fillna with a
\* dict calls Series.fillna(v) on each named column that is present;
\* Series.fillna(None) raises ValueError("Must specify a fill 'value' or
\* 'method'") in pandas 1.x and 2.x. mode is that call's behaviour.
FillnaStep(df, mode) ==
    IF (HasCol(df, "dock_bay") \/ HasCol(df, "dock_level")) /\ mode = "raise"
    THEN Raised
    ELSE LET d1 == IF HasCol(df, "services")
                   THEN SetCol(df, "services",
                               [i \in 1..df.n |->
                                   fillna_cell(df.data["services"][i], Str(<<>>))])
                   ELSE df
             d2 == IF HasCol(d1, "is_emergency")
                   THEN SetCol(d1, "is_emergency",
                               [i \in 1..df.n |->
                                   fillna_cell(d1.data["is_emergency"][i], Bool(FALSE))])
                   ELSE d1
         IN  Returned(d2)

\* DataProcessor.transform_for_postgres
transform_for_postgres(df, mode) ==
    LET d1 == ServicesStep(DockStep(df))
        d2 == DatetimeStep(d1)
    IN  IF d2.raised THEN Raised
        ELSE FillnaStep(BoolStep(NumericStep(d2.df)), mode)

(***************************************************************************)
(* validate_data.                                                          *)
(***************************************************************************)
required_columns ==
    <<"transaction_id", "station_id", "ship_name", "fuel_type", "visited_at">>

\* [col for col in required_columns if col not in df.columns]
missing_columns(df) == SelectSeq(required_columns, LAMBDA c : ~HasCol(df, c))

\* series.duplicated().any(): some cell equals an earlier one (missing values
\* count as equal to each other)
duplicated_any(series) ==
    \E i, j \in DOMAIN series : i < j /\ series[i] = series[j]

\* (series < lo).any() or (series > hi).any(); a comparison with NaN is False
outside_any(series, lo, hi) ==
    \E i \in DOMAIN series :
        series[i].k = "num" /\ (series[i].n < lo \/ series[i].n > hi)

\* the warnings validate_data logs (lines 148-155); they do not change its result
range_warnings(df) ==
    {c \in {"fuel_units"} : HasCol(df, c) /\ outside_any(df.data[c], 0, 10000)}
    \cup {c \in {"station_id"} : HasCol(df, c) /\ outside_any(df.data[c], 1000, 9999)}

\* a validate_data that rejects what it should only warn about
validate_data_range_hard(df) ==
    IF missing_columns(df) # <<>> THEN FALSE
    ELSE IF duplicated_any(df.data["transaction_id"]) THEN FALSE
    ELSE range_warnings(df) = {}

\* a validate_data without the check for duplicate transaction ids
validate_data_no_duplicate_check(df) == missing_columns(df) = <<>>

\* DataProcessor.validate_data
validate_data(df) ==
    IF missing_columns(df) # <<>> THEN FALSE
    ELSE IF duplicated_any(df.data["transaction_id"]) THEN FALSE
    ELSE TRUE

(***************************************************************************)
(* The DataFrames the model reads: up to MaxRows rows; every column of the *)
(* export present except at most one (and, with it or alone, dock); one    *)
(* column's cells range over the kinds of value a parquet file can hold    *)
(* there, the other columns hold an ordinary value.                        *)
(***************************************************************************)
AllColumns ==
    <<"transaction_id", "station_id", "ship_name", "fuel_type", "visited_at",
      "arrival_date", "dock", "services", "price_per_unit", "total_cost",
      "fuel_units", "coords_x", "coords_y", "is_emergency">>

Fuel == <<"f", "u", "e", "l">>
Repair == <<"r", "e", "p">>
FullDock == Dict([bay |-> Str(<<"A">>), level |-> Num(2)])

TxId(i) == Str(<<"t", Digits[i + 1]>>)

NumericInputs ==
    {Num(0 - 3), Str(<<"1", "2">>), Str(<<"a", "b", "c">>), None, NaN}

ColValues(c) ==
    CASE c = "transaction_id" -> {TxId(1), TxId(2), None}
      [] c = "station_id" -> {Num(1500), Num(7), Str(<<"4", "2">>), Str(<<"x">>), None}
      [] c \in {"ship_name", "fuel_type"} -> {Str(<<"s">>), None}
      [] c = "visited_at" -> {Ts(30, 2), Ts(5, 0), Str(<<"x">>)}
      [] c = "arrival_date" -> {Ts(30, 2), Date(1), None}
      [] c = "dock" -> {FullDock, Dict([bay |-> Str(<<"B">>)]), None, NaN, Str(<<"A">>)}
      [] c = "services" -> {List(<<Fuel, Repair>>), List(<<Fuel>>), List(<<>>),
                            NdArray(<<Fuel, Repair>>), None, NaN, Str(Fuel)}
      [] c = "is_emergency" -> {Bool(TRUE), Bool(FALSE), None, NaN, Num(0)}
      [] OTHER -> NumericInputs

DefaultCell(c, i) ==
    CASE c = "transaction_id" -> TxId(i)
      [] c = "station_id" -> Num(1500)
      [] c \in {"ship_name", "fuel_type"} -> Str(<<"s">>)
      [] c \in {"visited_at", "arrival_date"} -> Ts(30, 2)
      [] c = "dock" -> FullDock
      [] c = "services" -> List(<<Fuel, Repair>>)
      [] c = "is_emergency" -> Bool(FALSE)
      [] OTHER -> Num(12)

\* the columns a frame may lack: the required ones, and those whose absence
\* a rule of the transformer tests
Droppable ==
    Range(required_columns) \cup {"dock", "services", "is_emergency", "fuel_units"}

AbsentSets(focus) ==
    {a \in {{}} \cup {{c} : c \in Droppable} \cup {{c, "dock"} : c \in Droppable} :
        focus \notin a}

\* the DataFrame of n rows without the columns in absent, whose column focus
\* holds cells and whose other columns hold their ordinary value
Frame(n, absent, focus, cells) ==
    LET cols == SelectSeq(AllColumns, LAMBDA c : c \notin absent)
    IN  [cols |-> cols,
         n |-> n,
         data |-> [c \in Range(cols) |->
                      IF c = focus THEN cells ELSE [i \in 1..n |-> DefaultCell(c, i)]]]

IsFrame(df) ==
    \E n \in 0..MaxRows, c \in Range(AllColumns) :
        \E absent \in AbsentSets(c), cells \in [1..n -> ColValues(c)] :
            df = Frame(n, absent, c, cells)

FillnaNoneModes == {"raise", "noop"}

(***************************************************************************)
(* The collaborators: the reader, the tracker and the loader. Each takes   *)
(* the outcome of the call it wraps (ok: the call did not raise).          *)
(***************************************************************************)

\* DataProcessor.read_parquet_file: the file's DataFrame; a failure is logged
\* and raised again
read_parquet_file(ok, fileFrame) == IF ok THEN Returned(fileFrame) ELSE Raised

\* a get_processed_files that raises the query's exception again
get_processed_files_reraise(ok, table) ==
    [raised |-> ~ok,
     files |-> IF ok THEN {table[i].filename : i \in DOMAIN table} ELSE {}]

\* FileTracker.get_processed_files: the filenames of the table's rows; a
\* failing query is logged and answered with the empty set
get_processed_files(ok, table) ==
    [raised |-> FALSE,
     files |-> IF ok THEN {table[i].filename : i \in DOMAIN table} ELSE {}]

\* a mark_file_processed whose insert never reaches the table
mark_file_processed_no_insert(ok, name, now, table) ==
    [raised |-> ~ok, table |-> table]

\* FileTracker.mark_file_processed: INSERT ... ON CONFLICT (filename) DO
\* NOTHING; a failure is logged and raised again
mark_file_processed(ok, name, now, table) ==
    [raised |-> ~ok,
     table |-> IF ok /\ \A i \in DOMAIN table : table[i].filename # name
               THEN Append(table, [filename |-> name, processed_at |-> now])
               ELSE table]

\* batch_size: int = 1000
DefaultBatchSize == 1000

\* an insert_dataframe that logs a failure and returns
insert_dataframe_swallow(ok, df, batch, sent) ==
    [raised |-> FALSE,
     committed |-> IF ok THEN df.n ELSE (sent \div batch) * batch]

\* PostgreSQLLoader.insert_dataframe: insert_rows commits every batch rows and
\* at the end; when it fails after sent rows, the complete batches before the
\* failure stay committed. A failure is logged and raised again.
insert_dataframe(ok, df, batch, sent) ==
    [raised |-> ~ok,
     committed |-> IF ok THEN df.n ELSE (sent \div batch) * batch]

(***************************************************************************)
(* The files of the coordinator runs.                                      *)
(***************************************************************************)
Filenames == {"a.parquet", "b.parquet"}

FileFrames ==
    {Frame(2, {}, "services", <<List(<<Fuel, Repair>>), NdArray(<<Fuel>>)>>),
     Frame(2, {"dock"}, "fuel_units", <<Num(0 - 3), Str(<<"a", "b", "c">>)>>),
     Frame(2, {"dock"}, "transaction_id", <<TxId(1), TxId(1)>>),
     Frame(1, {"dock", "ship_name"}, "price_per_unit", <<Num(12)>>),
     Frame(1, {"dock"}, "visited_at", <<Str(<<"x">>)>>)}

BatchSizes == {1, DefaultBatchSize}

NoRun == [file |-> "", outcome |-> "none", processed |-> <<>>,
          target |-> [f \in Filenames |-> 0], loads |-> [f \in Filenames |-> 0]]

(***************************************************************************)
(* The coordinator: one run per file,                                      *)
(* START -> CHECK_TRACKED -> READ -> TRANSFORM -> VALIDATE -> LOAD ->      *)
(* MARK_PROCESSED -> END.                                                  *)
(***************************************************************************)
Init ==
    /\ fillnaNone \in FillnaNoneModes
    /\ content \in [Filenames -> FileFrames]
    /\ pc = "IDLE"
    /\ filename = ""
    /\ raw = EmptyFrame
    /\ norm = Returned(EmptyFrame)
    /\ valid = FALSE
    /\ again = Returned(EmptyFrame)
    /\ processed = <<>>
    /\ target = [f \in Filenames |-> 0]
    /\ loads = [f \in Filenames |-> 0]
    /\ calls = 0
    /\ queryOk = TRUE
    /\ outcome = "none"
    /\ failedAt = "none"
    /\ prev = NoRun

\* the run ends with the exception of step
Fail(step) ==
    /\ pc' = "IDLE"
    /\ outcome' = "failed"
    /\ failedAt' = step

Start(f) ==
    /\ pc = "IDLE"
    /\ calls < MaxCalls
    /\ calls' = calls + 1
    /\ filename' = f
    /\ prev' = [file |-> filename, outcome |-> outcome, processed |-> processed,
                target |-> target, loads |-> loads]
    /\ pc' = "CHECK_TRACKED"
    /\ outcome' = "running"
    /\ failedAt' = "none"
    /\ raw' = EmptyFrame
    /\ norm' = Returned(EmptyFrame)
    /\ valid' = FALSE
    /\ queryOk' = TRUE
    /\ UNCHANGED <<fillnaNone, content, again, processed, target, loads>>

CheckTracked ==
    /\ pc = "CHECK_TRACKED"
    /\ \E ok \in BOOLEAN :
          LET r == get_processed_files(ok, processed)
          IN  /\ queryOk' = ok
              /\ IF r.raised THEN Fail("CHECK_TRACKED")
                 ELSE IF filename \in r.files
                 THEN pc' = "IDLE" /\ outcome' = "skipped" /\ UNCHANGED failedAt
                 ELSE pc' = "READ" /\ UNCHANGED <<outcome, failedAt>>
    /\ UNCHANGED <<fillnaNone, filename, content, raw, norm, valid, again,
                   processed, target, loads, calls, prev>>

Read ==
    /\ pc = "READ"
    /\ \E ok \in BOOLEAN :
          LET r == read_parquet_file(ok, content[filename])
          IN  IF r.raised THEN Fail("READ") /\ UNCHANGED raw
              ELSE raw' = r.df /\ pc' = "TRANSFORM" /\ UNCHANGED <<outcome, failedAt>>
    /\ UNCHANGED <<fillnaNone, filename, content, norm, valid, again,
                   processed, target, loads, calls, queryOk, prev>>

Transform ==
    /\ pc = "TRANSFORM"
    /\ norm' = transform_for_postgres(raw, fillnaNone)
    /\ IF norm'.raised THEN Fail("TRANSFORM")
       ELSE pc' = "VALIDATE" /\ UNCHANGED <<outcome, failedAt>>
    /\ UNCHANGED <<fillnaNone, filename, content, raw, valid, again,
                   processed, target, loads, calls, queryOk, prev>>

Validate ==
    /\ pc = "VALIDATE"
    /\ valid' = validate_data(norm.df)
    /\ IF valid' THEN pc' = "LOAD" /\ UNCHANGED <<outcome, failedAt>>
       ELSE Fail("VALIDATE")
    /\ UNCHANGED <<fillnaNone, filename, content, raw, norm, again,
                   processed, target, loads, calls, queryOk, prev>>

Load ==
    /\ pc = "LOAD"
    /\ \E ok \in BOOLEAN, batch \in BatchSizes, sent \in 0..(norm.df.n - 1) :
          LET r == insert_dataframe(ok, norm.df, batch, sent)
          IN  /\ target' = [target EXCEPT ![filename] = @ + r.committed]
              /\ IF r.raised THEN Fail("LOAD") /\ UNCHANGED loads
                 ELSE /\ loads' = [loads EXCEPT ![filename] = @ + 1]
                      /\ pc' = "MARK_PROCESSED"
                      /\ UNCHANGED <<outcome, failedAt>>
    /\ UNCHANGED <<fillnaNone, filename, content, raw, norm, valid, again,
                   processed, calls, queryOk, prev>>

MarkProcessed ==
    /\ pc = "MARK_PROCESSED"
    /\ \E ok \in BOOLEAN :
          LET r == mark_file_processed(ok, filename, calls, processed)
          IN  /\ processed' = r.table
              /\ IF r.raised THEN Fail("MARK_PROCESSED")
                 ELSE pc' = "IDLE" /\ outcome' = "ok" /\ UNCHANGED failedAt
    /\ UNCHANGED <<fillnaNone, filename, content, raw, norm, valid, again,
                   target, loads, calls, queryOk, prev>>

Next ==
    \/ \E f \in Filenames : Start(f)
    \/ CheckTracked
    \/ Read
    \/ Transform
    \/ Validate
    \/ Load
    \/ MarkProcessed

Spec == Init /\ [][Next]_vars

(***************************************************************************)
(* The transformer and the validator on their own: transform a DataFrame,  *)
(* validate the result, transform the result again.                        *)
(***************************************************************************)
InitPure ==
    /\ fillnaNone \in FillnaNoneModes
    /\ IsFrame(raw)
    /\ pc = "raw"
    /\ filename = ""
    /\ content = [f \in Filenames |-> EmptyFrame]
    /\ norm = Returned(EmptyFrame)
    /\ valid = FALSE
    /\ again = Returned(EmptyFrame)
    /\ processed = <<>>
    /\ target = [f \in Filenames |-> 0]
    /\ loads = [f \in Filenames |-> 0]
    /\ calls = 0
    /\ queryOk = TRUE
    /\ outcome = "none"
    /\ failedAt = "none"
    /\ prev = NoRun

PureTransform ==
    /\ pc = "raw"
    /\ norm' = transform_for_postgres(raw, fillnaNone)
    /\ pc' = IF norm'.raised THEN "raised" ELSE "transformed"
    /\ UNCHANGED <<fillnaNone, filename, content, raw, valid, again, processed,
                   target, loads, calls, queryOk, outcome, failedAt, prev>>

PureValidate ==
    /\ pc = "transformed"
    /\ valid' = validate_data(norm.df)
    /\ pc' = "validated"
    /\ UNCHANGED <<fillnaNone, filename, content, raw, norm, again, processed,
                   target, loads, calls, queryOk, outcome, failedAt, prev>>

PureRetransform ==
    /\ pc = "validated"
    /\ again' = transform_for_postgres(norm.df, fillnaNone)
    /\ pc' = "retransformed"
    /\ UNCHANGED <<fillnaNone, filename, content, raw, norm, valid, processed,
                   target, loads, calls, queryOk, outcome, failedAt, prev>>

NextPure ==
    \/ PureTransform
    \/ PureValidate
    \/ PureRetransform

SpecPure == InitPure /\ [][NextPure]_vars

(***************************************************************************)
(* Properties of the validator and the transformer (under SpecPure).       *)
(***************************************************************************)
Cell(df, c, i) == df.data[c][i]

AllRequiredPresent(df) == \A c \in Range(required_columns) : HasCol(df, c)

NoRepeatedTransactionId(df) ==
    \A i, j \in 1..df.n :
        i # j => Cell(df, "transaction_id", i) # Cell(df, "transaction_id", j)

\* C3: validate returns true exactly when all five required columns are
\* present and no transaction_id is repeated; values of fuel_units or
\* station_id outside their expected ranges never change the result.
C3_ValidateExact ==
    pc \in {"validated", "retransformed"} =>
        (valid <=> (AllRequiredPresent(norm.df) /\ NoRepeatedTransactionId(norm.df)))

\* C3 witness: a table with a station_id or fuel_units out of range has been validated
\* and accepted
C3_Witness ==
    /\ pc = "validated"
    /\ valid
    /\ range_warnings(norm.df) # {}

\* C3 witness of the other case: a table with a repeated transaction_id, but all
\* required columns, has been validated and rejected
C3_WitnessDuplicate ==
    /\ pc = "validated"
    /\ ~valid
    /\ AllRequiredPresent(norm.df)

SameExceptServices(a, b) ==
    /\ a.cols = b.cols
    /\ a.n = b.n
    /\ \A c \in Range(a.cols) \ {"services"} : a.data[c] = b.data[c]

\* C4 as stated: transform applied to its own output returns that output
\* unchanged, in every column and every row.
C4_Idempotent ==
    pc = "retransformed" => (~again.raised /\ again.df = norm.df)

\* C4 as amended: transform applied to its own output does not raise and
\* leaves every column but services unchanged; every services value, being a
\* str and no list, becomes the empty string.
C4_IdempotentExceptServices ==
    pc = "retransformed" =>
        /\ ~again.raised
        /\ SameExceptServices(again.df, norm.df)
        /\ HasCol(norm.df, "services") =>
              \A i \in 1..norm.df.n : Cell(again.df, "services", i) = Str(<<>>)

\* C4 witness: a table whose transformed services is a joined, non-empty string, and whose
\* visited_at was on another clock than UTC, has been transformed twice
C4_Witness ==
    /\ pc = "retransformed"
    /\ ~again.raised
    /\ HasCol(norm.df, "services")
    /\ \E i \in 1..norm.df.n : Cell(norm.df, "services", i) = Str(Fuel \o <<",">> \o Repair)
    /\ HasCol(raw, "visited_at")
    /\ \E i \in 1..raw.n : Cell(raw, "visited_at", i) = Ts(30, 2)

IsSequenceOfStrings(x) == x.k \in {"list", "ndarray"}

\* C5: after transform services is always a string; a non-empty sequence of
\* strings yields its elements joined with ",", and anything else (an empty
\* list, another kind of value, a missing value) yields the empty string.
C5_ServicesJoined ==
    (pc = "transformed" /\ HasCol(raw, "services")) =>
        /\ HasCol(norm.df, "services")
        /\ \A i \in 1..raw.n :
              LET x == Cell(raw, "services", i)
                  y == Cell(norm.df, "services", i)
              IN  /\ y.k = "str"
                  /\ (IsSequenceOfStrings(x) /\ x.l # <<>>) => y = Str(Join(x.l))
                  /\ ~(IsSequenceOfStrings(x) /\ x.l # <<>>) => y = Str(<<>>)

\* C6: after transform is_emergency is a boolean in every row, and false in
\* every row whose source value is missing.
C6_EmergencyDefault ==
    (pc = "transformed" /\ HasCol(raw, "is_emergency")) =>
        /\ HasCol(norm.df, "is_emergency")
        /\ \A i \in 1..raw.n :
              /\ Cell(norm.df, "is_emergency", i).k = "bool"
              /\ isna(Cell(raw, "is_emergency", i)) =>
                    Cell(norm.df, "is_emergency", i) = Bool(FALSE)

DockEntry(x, key) ==
    IF x.k = "dict" /\ key \in DOMAIN x.d THEN x.d[key] ELSE None

\* C7: for a table with rows, a dock column and dates that parse, transform
\* returns a table without dock and with dock_bay and dock_level, holding the
\* bay and the level of each row's dock structure, and null where the dock
\* value is no such structure.
C7_DockExtracted ==
    (pc \in {"transformed", "raised"} /\ HasCol(raw, "dock") /\ raw.n > 0
        /\ ~DatetimeStep(raw).raised) =>
        /\ ~norm.raised
        /\ ~HasCol(norm.df, "dock")
        /\ HasCol(norm.df, "dock_bay")
        /\ HasCol(norm.df, "dock_level")
        /\ \A i \in 1..raw.n :
              LET x == Cell(raw, "dock", i)
              IN  /\ x.k = "dict" =>
                        /\ Cell(norm.df, "dock_bay", i) = DockEntry(x, "bay")
                        /\ Cell(norm.df, "dock_level", i) = DockEntry(x, "level")
                  /\ x.k # "dict" =>
                        /\ isna(Cell(norm.df, "dock_bay", i))
                        /\ isna(Cell(norm.df, "dock_level", i))

NumericColumns == Range(decimal_columns) \cup Range(float_columns)

WithoutNumericColumns(df) ==
    [cols |-> SelectSeq(df.cols, LAMBDA c : c \notin NumericColumns),
     n |-> df.n,
     data |-> [c \in Range(df.cols) \ NumericColumns |-> df.data[c]]]

\* C8: in each of price_per_unit, total_cost, fuel_units, coords_x and
\* coords_y, a value that parses as a number comes out as that number and a
\* value that does not comes out null and stays null after the backfill; no
\* value of these columns makes transform raise.
C8_NumericCoercion ==
    /\ pc = "transformed" =>
          \A c \in NumericColumns :
              HasCol(raw, c) =>
                  /\ HasCol(norm.df, c)
                  /\ \A i \in 1..raw.n :
                        LET x == Cell(raw, c, i)
                            y == Cell(norm.df, c, i)
                        IN  /\ x.k = "num" => y = x
                            /\ x = Str(<<"1", "2">>) => y = Num(12)
                            /\ (x.k = "str" /\ ~ParsesAsNumber(x.s)) => isna(y)
                            /\ isna(x) => isna(y)
    /\ pc = "raised" =>
          transform_for_postgres(WithoutNumericColumns(raw), fillnaNone).raised

\* C8 witness: a table with an unparsable and a parsable numeric string has been
\* transformed
C8_Witness ==
    /\ pc = "transformed"
    /\ \E c \in NumericColumns :
          /\ HasCol(raw, c)
          /\ \E i, j \in 1..raw.n :
                /\ Cell(raw, c, i) = Str(<<"a", "b", "c">>)
                /\ Cell(norm.df, c, i) = NaN
                /\ Cell(raw, c, j) = Str(<<"1", "2">>)
                /\ Cell(norm.df, c, j) = Num(12)

(***************************************************************************)
(* Properties of the coordinator (under Spec).                             *)
(***************************************************************************)
Markers(name) == Cardinality({i \in DOMAIN processed : processed[i].filename = name})

SecondCallInARow ==
    /\ calls >= 2
    /\ prev.file = filename
    /\ prev.outcome = "ok"

\* C1 as stated: after two calls in a row with the same filename, the first
\* of which went through, the file has been loaded exactly once and has
\* exactly one marker, the second call having ended at CHECK_TRACKED.
C1_SecondCallSkips ==
    (SecondCallInARow /\ calls = 2 /\ pc = "IDLE") =>
        /\ outcome = "skipped"
        /\ loads[filename] = 1
        /\ target[filename] = content[filename].n
        /\ Markers(filename) = 1

\* C1 as amended: when the tracking query of the second call succeeds, the
\* second call ends at CHECK_TRACKED and reads, loads and marks nothing: the
\* target table and the tracking table are as the first call left them,
\* with one marker for the file and, when these were the first two calls,
\* one load of its rows.
C1_SecondCallSkipsWhenQuerySucceeds ==
    (SecondCallInARow /\ queryOk /\ pc # "CHECK_TRACKED") =>
        /\ pc = "IDLE"
        /\ outcome = "skipped"
        /\ processed = prev.processed
        /\ target = prev.target
        /\ loads = prev.loads
        /\ Markers(filename) = 1
        /\ calls = 2 =>
              (loads[filename] = 1 /\ target[filename] = content[filename].n)

\* C1 witness: the second call in a row for a loaded and marked file has ended, skipped
C1_Witness ==
    /\ SecondCallInARow
    /\ calls = 2
    /\ queryOk
    /\ pc = "IDLE"
    /\ outcome = "skipped"
    /\ loads[filename] = 1

\* what makes validate_data return false, stated on the table
Invalid(df) ==
    \/ \E c \in Range(required_columns) : ~HasCol(df, c)
    \/ \E i, j \in 1..df.n :
          i # j /\ Cell(df, "transaction_id", i) = Cell(df, "transaction_id", j)

PastValidate ==
    \/ pc \in {"LOAD", "MARK_PROCESSED"}
    \/ pc = "IDLE" /\ outcome = "ok"
    \/ pc = "IDLE" /\ outcome = "failed"
          /\ failedAt \in {"VALIDATE", "LOAD", "MARK_PROCESSED"}

\* C2: a run whose normalized table is invalid ends in failure at VALIDATE
\* with the target table and the tracking table untouched; a file whose
\* normalized table is invalid never has a row in the target table nor a
\* marker.
C2_InvalidNeverLoaded ==
    /\ (PastValidate /\ Invalid(norm.df)) =>
          /\ pc = "IDLE"
          /\ outcome = "failed"
          /\ failedAt = "VALIDATE"
          /\ target = prev.target
          /\ processed = prev.processed
    /\ \A f \in Filenames :
          LET t == transform_for_postgres(content[f], fillnaNone)
          IN  (~t.raised /\ Invalid(t.df)) =>
                  (target[f] = 0 /\ loads[f] = 0 /\ Markers(f) = 0)

\* C2 witness: a run has been aborted at VALIDATE after an earlier run loaded another file
C2_Witness ==
    /\ pc = "IDLE"
    /\ outcome = "failed"
    /\ failedAt = "VALIDATE"
    /\ Invalid(norm.df)
    /\ processed # <<>>

\* C9: a failing tracking query does not fail the run: get_processed_files
\* answers with the empty set, so the run is never skipped and goes on to
\* READ, whatever the tracking table holds.
C9_QueryFailureNonFatal ==
    /\ get_processed_files(FALSE, processed) = [raised |-> FALSE, files |-> {}]
    /\ (calls > 0 /\ ~queryOk) =>
          /\ pc # "CHECK_TRACKED"
          /\ outcome # "skipped"
          /\ failedAt # "CHECK_TRACKED"

\* C9 witness: a file already marked has been read, transformed, validated, loaded and
\* marked again by a run whose tracking query failed
C9_Witness ==
    /\ ~queryOk
    /\ pc = "IDLE"
    /\ outcome = "ok"
    /\ \E i \in DOMAIN prev.processed : prev.processed[i].filename = filename
    /\ loads[filename] = prev.loads[filename] + 1

\* C10: a file has a marker only if an insert of all of its rows returned
\* before; MARK_PROCESSED is reached only from a LOAD that committed every
\* row; a run that fails at READ, TRANSFORM, VALIDATE or LOAD leaves the
\* tracking table as it was.
C10_MarkerOnlyAfterLoad ==
    /\ \A i \in DOMAIN processed :
          LET f == processed[i].filename
          IN  loads[f] >= 1 /\ target[f] >= content[f].n
    /\ pc = "MARK_PROCESSED" =>
          /\ loads[filename] = prev.loads[filename] + 1
          /\ target[filename] = prev.target[filename] + norm.df.n
    /\ (outcome = "failed" /\ failedAt \in {"READ", "TRANSFORM", "VALIDATE", "LOAD"}) =>
          processed = prev.processed

\* C10 witness: a load has failed after committing some rows, and no marker was written
\* for its file, while another file is loaded and marked
C10_Witness ==
    /\ outcome = "failed"
    /\ failedAt = "LOAD"
    /\ target[filename] > prev.target[filename]
    /\ Markers(filename) = 0
    /\ processed # <<>>

====
